---- MODULE Spec2Model ----
(***************************************************************************)
(* Model of src/minesweeper/minesweeper.py: the Minesweeper board          *)
(* (nearby_mines), the Sentence class and the MinesweeperAI knowledge      *)
(*                                                                         *)
(* base (mark_mine, mark_safe, add_knowledge, make_safe_move,               *)
(* make_random_move).                                                      *)
(*                                                                         *)
(* Spec      : add_knowledge called with any in-bounds cell and any count. *)
(* SpecBoard : a board is fixed at construction and add_knowledge is only  *)
(*             called on safe cells with the board's nearby_mines count.   *)
(***************************************************************************)
EXTENDS Integers, Sequences, FiniteSets, TLC

\* ---- bounds of the model ----
Height == 3
Width == 3
MaxNeg == 1
MaxCount == 3
MaxObs == 2
MaxMines == 2
MaxReveal == 2
MaxStepObs == 1
MaxMovesObs == 1
SmallHeight == 2
SmallWidth == 3
SmallMines == 3
SmallReveal == 2
SentHeight == 2
SentWidth == 2

\* ---- constants of the program ----
DefaultHeight == 8
DefaultWidth == 8
NoMoreMoves == 56

VARIABLES
    knowledge,   \* MinesweeperAI.knowledge : list of Sentence
    mines,       \* MinesweeperAI.mines
    safes,       \* MinesweeperAI.safes
    moves_made,  \* MinesweeperAI.moves_made
    height,      \* MinesweeperAI.height
    width,       \* MinesweeperAI.width
    board,       \* Minesweeper.mines : the cells of the board that hold a mine
    calls,       \* the add_knowledge calls made so far, as <<cell, count>>, oldest first
    pre,         \* knowledge, mines, safes, moves_made as the latest add_knowledge call found them
    appended,    \* the sentences the latest add_knowledge call appended (line 278): none or one
    ret,         \* the latest operation and what it returned
    pc,          \* "idle", or "loop" while add_knowledge is in its for loop (lines 281-307)
    iter         \* the position the list iterator of that loop reads next

vars == <<knowledge, mines, safes, moves_made, height, width, board, calls, pre, appended,
          ret, pc, iter>>

kb == <<knowledge, mines, safes, moves_made>>

Grid(h, w) == (0 .. h - 1) \X (0 .. w - 1)

Cells == Grid(height, width)

Counts == (0 - MaxNeg) .. MaxCount

\* ---- Minesweeper (the board) ----

\* the cells within one row and column of cell, in bounds, not cell itself
Neighbors(cell) ==
    { c \in (cell[1] - 1 .. cell[1] + 1) \X (cell[2] - 1 .. cell[2] + 1) :
        /\ c # cell
        /\ 0 <= c[1] /\ c[1] < height
        /\ 0 <= c[2] /\ c[2] < width }

nearby_mines(b, cell) == Cardinality({ c \in Neighbors(cell) : c \in b })

\* ---- Sentence ----

Sentence(cells, count) == [cells |-> cells, count |-> count]

known_mines(s) == IF Cardinality(s.cells) = s.count THEN s.cells ELSE {}

known_safes(s) == IF s.count = 0 THEN s.cells ELSE {}

\* mark_mine with `self.count -= 1` moved out of the if
Sentence_mark_mine_always(s, cell) ==
    [cells |-> s.cells \ {cell}, count |-> s.count - 1]

\* mark_mine without `self.count -= 1`
Sentence_mark_mine_keepcount(s, cell) ==
    IF cell \in s.cells
    THEN [cells |-> s.cells \ {cell}, count |-> s.count]
    ELSE s

Sentence_mark_mine(s, cell) ==
    IF cell \in s.cells
    THEN [cells |-> s.cells \ {cell}, count |-> s.count - 1]
    ELSE s

\* mark_safe with mark_mine's `self.count -= 1` copied in
Sentence_mark_safe_decrement(s, cell) ==
    IF cell \in s.cells
    THEN [cells |-> s.cells \ {cell}, count |-> s.count - 1]
    ELSE s

Sentence_mark_safe(s, cell) ==
    IF cell \in s.cells
    THEN [cells |-> s.cells \ {cell}, count |-> s.count]
    ELSE s

\* ---- MinesweeperAI ----

\* a state of the knowledge base while a call is running
KB(K, M, S) == [knowledge |-> K, mines |-> M, safes |-> S]

mark_mine(st, cell) ==
    KB([p \in 1 .. Len(st.knowledge) |-> Sentence_mark_mine(st.knowledge[p], cell)],
       st.mines \cup {cell},
       st.safes)

mark_safe(st, cell) ==
    KB([p \in 1 .. Len(st.knowledge) |-> Sentence_mark_safe(st.knowledge[p], cell)],
       st.mines,
       st.safes \cup {cell})

\* `a and b` taken for its first operand
PyAnd_left(a, b) == a

\* Python's `a and b` on two sets: a when a is empty (falsy), else b
PyAnd(a, b) == IF a = {} THEN a ELSE b

\* list.remove(x): drops the first element equal to x (Sentence.__eq__)
ListRemove(K, x) ==
    IF \E p \in 1 .. Len(K) : K[p] = x
    THEN LET j == CHOOSE p \in 1 .. Len(K) :
                      /\ K[p] = x
                      /\ \A q \in 1 .. p - 1 : K[q] # x
         IN  [p \in 1 .. Len(K) - 1 |-> IF p < j THEN K[p] ELSE K[p + 1]]
    ELSE K

\* for mine in todo: self.mark_mine(mine)
RECURSIVE MarkMines(_, _)
MarkMines(st, todo) ==
    IF todo = {} THEN st
    ELSE LET mine == CHOOSE c \in todo : TRUE
         IN  MarkMines(mark_mine(st, mine), todo \ {mine})

\* the loop body with `self.safes = known_safes` for `self.safes.update(known_safes)`
LoopBody_assign(st, idx) ==
    LET sentence == st.knowledge[idx]
        ks == known_safes(sentence)
        km == known_mines(sentence)
        st1 == IF ks # {}
               THEN KB(ListRemove(st.knowledge, sentence), st.mines, ks)
               ELSE st
    IN  IF km # {}
        THEN MarkMines(KB(ListRemove(st1.knowledge, sentence), st1.mines, st1.safes),
                       km \cup st1.mines)
        ELSE st1

\* one iteration of `for sentence in self.knowledge`, on the element at idx
LoopBody(st, idx) ==
    LET sentence == st.knowledge[idx]
        ks == known_safes(sentence)
        km == known_mines(sentence)
        st1 == IF ks # {}
               THEN KB(ListRemove(st.knowledge, sentence), st.mines, st.safes \cup ks)
               ELSE st
    IN  IF km # {}
        THEN MarkMines(KB(ListRemove(st1.knowledge, sentence), st1.mines, st1.safes),
                       km \cup st1.mines)
        ELSE st1

\* the list iterator: visits index idx, idx + 1, ... of the list as it is
\* when each index is reached
RECURSIVE Loop(_, _)
Loop(st, idx) ==
    IF idx > Len(st.knowledge) THEN st
    ELSE Loop(LoopBody(st, idx), idx + 1)

\* the cells of the sentence add_knowledge builds for cell
current_knowledge_cells(cell, made, S) ==
    { c \in Neighbors(cell) : c \notin PyAnd(made, S) }

\* ingest with the neighbours already in self.mines taken off the count
\* while they stay in the sentence
ingest_discount(K, M, S, made, cell, count) ==
    LET made1 == made \cup {cell}
        st0 == KB(K, M, S)
        st1 == IF cell \notin S THEN mark_safe(st0, cell) ELSE st0
        ckc == current_knowledge_cells(cell, made1, st1.safes)
        new == IF Cardinality(ckc) # 0
               THEN <<Sentence(ckc, count - Cardinality(ckc \cap M))>>
               ELSE <<>>
    IN  [kb |-> KB(st1.knowledge \o new, st1.mines, st1.safes),
         moves_made |-> made1,
         appended |-> new]

\* lines 243-278: the state add_knowledge hands to its loop
ingest(K, M, S, made, cell, count) ==
    LET made1 == made \cup {cell}
        st0 == KB(K, M, S)
        st1 == IF cell \notin S THEN mark_safe(st0, cell) ELSE st0
        ckc == current_knowledge_cells(cell, made1, st1.safes)
        new == IF Cardinality(ckc) # 0 THEN <<Sentence(ckc, count)>> ELSE <<>>
    IN  [kb |-> KB(st1.knowledge \o new, st1.mines, st1.safes),
         moves_made |-> made1,
         appended |-> new]

add_knowledge_result(K, M, S, made, cell, count) ==
    LET g == ingest(K, M, S, made, cell, count)
    IN  [kb |-> Loop(g.kb, 1), moves_made |-> g.moves_made, appended |-> g.appended]

\* what an operation hands back: Python None, a cell, or no return at all
Returned(op, kind, cell) == [op |-> op, kind |-> kind, cell |-> cell]

ReturnsNone(op) == Returned(op, "None", <<>>)

ReturnsCell(op, cell) == Returned(op, "cell", cell)

NeverReturns(op) == Returned(op, "diverges", <<>>)

\* Sentence.mark_mine / Sentence.mark_safe called with cell on sentence s: it
\* returns 1 when the cell was in s.cells, else 0; ret keeps the cell it was given
Resolves(op, s, cell) == Returned(op, IF cell \in s.cells THEN "1" ELSE "0", cell)

\* knowledge, mines, safes, moves_made as a call finds them
Snapshot == [knowledge |-> knowledge, mines |-> mines, safes |-> safes,
             moves_made |-> moves_made]

add_knowledge(cell, count) ==
    LET r == add_knowledge_result(knowledge, mines, safes, moves_made, cell, count)
    IN  /\ pc = "idle"
        /\ knowledge' = r.kb.knowledge
        /\ mines' = r.kb.mines
        /\ safes' = r.kb.safes
        /\ moves_made' = r.moves_made
        /\ calls' = Append(calls, <<cell, count>>)
        /\ pre' = Snapshot
        /\ appended' = r.appended
        /\ ret' = ReturnsNone("add_knowledge")
        /\ UNCHANGED <<height, width, board, pc, iter>>

\* add_knowledge, one step at a time: lines 243-278, then the for loop
add_knowledge_begin(cell, count) ==
    LET g == ingest(knowledge, mines, safes, moves_made, cell, count)
    IN  /\ pc = "idle"
        /\ knowledge' = g.kb.knowledge
        /\ mines' = g.kb.mines
        /\ safes' = g.kb.safes
        /\ moves_made' = g.moves_made
        /\ calls' = Append(calls, <<cell, count>>)
        /\ pre' = Snapshot
        /\ appended' = g.appended
        /\ ret' = Returned("add_knowledge", "running", <<>>)
        /\ pc' = "loop"
        /\ iter' = 1
        /\ UNCHANGED <<height, width, board>>

\* the loop body run again and again on the same position of the list
add_knowledge_iterate_stuck ==
    /\ pc = "loop"
    /\ iter <= Len(knowledge)
    /\ LET st == LoopBody(KB(knowledge, mines, safes), iter)
       IN  /\ knowledge' = st.knowledge
           /\ mines' = st.mines
           /\ safes' = st.safes
    /\ iter' = iter
    /\ UNCHANGED <<moves_made, height, width, board, calls, pre, appended, ret, pc>>

\* the iterator has an element at iter: one pass of the loop body (lines 283-307)
add_knowledge_iterate ==
    /\ pc = "loop"
    /\ iter <= Len(knowledge)
    /\ LET st == LoopBody(KB(knowledge, mines, safes), iter)
       IN  /\ knowledge' = st.knowledge
           /\ mines' = st.mines
           /\ safes' = st.safes
    /\ iter' = iter + 1
    /\ UNCHANGED <<moves_made, height, width, board, calls, pre, appended, ret, pc>>

\* the iterator is exhausted: the loop ends and add_knowledge returns
add_knowledge_return ==
    /\ pc = "loop"
    /\ iter > Len(knowledge)
    /\ pc' = "idle"
    /\ iter' = 0
    /\ ret' = ReturnsNone("add_knowledge")
    /\ UNCHANGED <<knowledge, mines, safes, moves_made, height, width, board, calls,
                   pre, appended>>

\* make_safe_move with `safe_moves = self.safes` for `self.safes.copy()`: the
\* `-=` then works on self.safes itself
make_safe_move_result_nocopy(S, made) ==
    [safes |-> S \ made, safe_moves |-> S \ made]

\* make_safe_move without `safe_moves -= self.moves_made`
make_safe_move_result_nosubtract(S, made) ==
    [safes |-> S, safe_moves |-> S]

\* lines 338-342: self.safes after the call, and the candidates safe_moves
make_safe_move_result(S, made) ==
    [safes |-> S, safe_moves |-> S \ made]

\* lines 345-353: None, or safe_moves.pop(), any member of the set
make_safe_move ==
    LET r == make_safe_move_result(safes, moves_made)
    IN  /\ pc = "idle"
        /\ safes' = r.safes
        /\ IF Cardinality(r.safe_moves) = 0
           THEN ret' = ReturnsNone("make_safe_move")
           ELSE \E move \in r.safe_moves : ret' = ReturnsCell("make_safe_move", move)
        /\ UNCHANGED <<knowledge, mines, moves_made, height, width, board, calls, pre,
                       appended, pc, iter>>

\* line 373
not_safe_moves(made, M) == made \cup M

\* lines 363-381.  The while loop draws cells of the board at random until one
\* is outside not_safe_moves: it can hand back any such cell, and it never
\* ends when there is none.
make_random_move ==
    /\ pc = "idle"
    /\ IF Cardinality(moves_made) = NoMoreMoves
       THEN ret' = ReturnsNone("make_random_move")
       ELSE LET candidates == Cells \ not_safe_moves(moves_made, mines)
            IN  IF candidates = {}
                THEN ret' = NeverReturns("make_random_move")
                ELSE \E random_move \in candidates :
                         ret' = ReturnsCell("make_random_move", random_move)
    /\ UNCHANGED <<knowledge, mines, safes, moves_made, height, width, board, calls, pre,
                   appended, pc, iter>>

\* knowledge[1].mark_mine(cell), lines 144-165
resolve_mine(cell) ==
    /\ knowledge' = <<Sentence_mark_mine(knowledge[1], cell)>>
    /\ pre' = Snapshot
    /\ ret' = Resolves("Sentence.mark_mine", knowledge[1], cell)
    /\ UNCHANGED <<mines, safes, moves_made, height, width, board, calls, appended,
                   pc, iter>>

\* knowledge[1].mark_safe(cell), lines 167-185
resolve_safe(cell) ==
    /\ knowledge' = <<Sentence_mark_safe(knowledge[1], cell)>>
    /\ pre' = Snapshot
    /\ ret' = Resolves("Sentence.mark_safe", knowledge[1], cell)
    /\ UNCHANGED <<mines, safes, moves_made, height, width, board, calls, appended,
                   pc, iter>>

\* ---- specifications ----

\* MinesweeperAI.__init__(height, width)
InitAI(h, w) ==
    /\ height = h
    /\ width = w
    /\ knowledge = <<>>
    /\ mines = {}
    /\ safes = {}
    /\ moves_made = {}
    /\ calls = <<>>
    /\ pre = [knowledge |-> <<>>, mines |-> {}, safes |-> {}, moves_made |-> {}]
    /\ appended = <<>>
    /\ ret = ReturnsNone("__init__")
    /\ pc = "idle"
    /\ iter = 0

Init == InitAI(Height, Width) /\ board = {}

\* any caller: any in-bounds cell, any count
Observe ==
    /\ Len(calls) < MaxObs
    /\ \E cell \in Cells, count \in Counts : add_knowledge(cell, count)

Next == Observe

Spec == Init /\ [][Next]_vars

\* Minesweeper.__init__ places the mines; the AI starts empty
InitBoard ==
    /\ InitAI(Height, Width)
    /\ board \in { b \in SUBSET Grid(Height, Width) : Cardinality(b) <= MaxMines }

\* the game loop: a safe cell is revealed and its nearby_mines count is fed in
Reveal ==
    /\ Len(calls) < MaxReveal
    /\ \E cell \in Cells \ board : add_knowledge(cell, nearby_mines(board, cell))

NextBoard == Reveal

SpecBoard == InitBoard /\ [][NextBoard]_vars

\* as SpecBoard, on a board small enough to carry more mines
InitSmall ==
    /\ InitAI(SmallHeight, SmallWidth)
    /\ board \in { b \in SUBSET Grid(SmallHeight, SmallWidth) : Cardinality(b) <= SmallMines }

RevealSmall ==
    /\ Len(calls) < SmallReveal
    /\ \E cell \in Cells \ board : add_knowledge(cell, nearby_mines(board, cell))

NextSmall == RevealSmall

SpecSmall == InitSmall /\ [][NextSmall]_vars

\* one Sentence(cells, count), any cells and any count, held in knowledge, and
\* its mark_mine and mark_safe called with any cell of the board
InitSentence ==
    /\ height = SentHeight
    /\ width = SentWidth
    /\ knowledge \in { <<Sentence(cells, count)>> :
                          cells \in SUBSET Grid(SentHeight, SentWidth), count \in Counts }
    /\ mines = {}
    /\ safes = {}
    /\ moves_made = {}
    /\ board = {}
    /\ calls = <<>>
    /\ pre = [knowledge |-> <<>>, mines |-> {}, safes |-> {}, moves_made |-> {}]
    /\ appended = <<>>
    /\ ret = ReturnsNone("__init__")
    /\ pc = "idle"
    /\ iter = 0

MarkMine == \E cell \in Cells : resolve_mine(cell)

MarkSafe == \E cell \in Cells : resolve_safe(cell)

NextSentence == MarkMine \/ MarkSafe

SpecSentence == InitSentence /\ [][NextSentence]_vars

\* add_knowledge run statement by statement, any cell and any count
InitSteps == InitAI(Height, Width) /\ board = {}

Begin ==
    /\ Len(calls) < MaxStepObs
    /\ \E cell \in Cells, count \in Counts : add_knowledge_begin(cell, count)

NextSteps == Begin \/ add_knowledge_iterate \/ add_knowledge_return

\* a call that has started keeps running: the interpreter is single-threaded
\* and add_knowledge has no suspension point
SpecSteps ==
    InitSteps /\ [][NextSteps]_vars
        /\ WF_vars(add_knowledge_iterate) /\ WF_vars(add_knowledge_return)

\* add_knowledge with any cell and any count, and the two move queries
ObserveThenAsk ==
    /\ Len(calls) < MaxMovesObs
    /\ \E cell \in Cells, count \in Counts : add_knowledge(cell, count)

NextMoves == ObserveThenAsk \/ make_safe_move \/ make_random_move

SpecMoves == Init /\ [][NextMoves]_vars

\* a game on the default 8x8 grid with no mine, the cells revealed in
\* row-major order, make_random_move asked at any point
InitSweep == InitAI(DefaultHeight, DefaultWidth) /\ board = {}

SweepReveal ==
    /\ Len(calls) < height * width
    /\ LET cell == <<Len(calls) \div width, Len(calls) % width>>
       IN  add_knowledge(cell, nearby_mines(board, cell))

NextSweep == SweepReveal \/ make_random_move

SpecSweep == InitSweep /\ [][NextSweep]_vars

\* ---- properties ----

Live == { knowledge[p] : p \in 1 .. Len(knowledge) }

Resolved == mines \cup safes

\* C1: known_hazards (mines) and known_safe (safes) are disjoint in every
\* reachable state, whatever cells and counts add_knowledge is called with.
C1_Disjoint == mines \cap safes = {}

\* C2: when every call is made on a safe cell of a fixed board with its true
\* nearby_mines count, every known mine is a mine of the board and no known
\* safe cell is.
C2_Sound == mines \subseteq board /\ safes \cap board = {}

C2_Witness ==
    /\ board # {}
    /\ mines # {}
    /\ safes \ moves_made # {}
    /\ Len(calls) >= 2

\* C3: mines, safes and moves_made only grow across add_knowledge calls.
C3_Monotone ==
    [][ /\ mines \subseteq mines'
        /\ safes \subseteq safes'
        /\ moves_made \subseteq moves_made' ]_vars

C3_Witness ==
    /\ Len(calls) >= 2
    /\ mines # {}
    /\ safes \ moves_made # {}
    /\ Cardinality(moves_made) >= 2

\* C4: after add_knowledge returns, no sentence of the knowledge base contains
\* a cell that is in mines or in safes.
C4_Purged == \A s \in Live : s.cells \cap Resolved = {}

\* C5: after add_knowledge returns, every sentence with cells and count 0 has
\* all its cells in safes and every sentence with count = |cells| has all its
\* cells in mines.
C5_LocalComplete ==
    \A s \in Live :
        /\ (s.cells # {} /\ s.count = 0) => s.cells \subseteq safes
        /\ (s.count = Cardinality(s.cells)) => s.cells \subseteq mines

\* C6: after add_knowledge returns, for sentences A, B of the knowledge base
\* with A.cells a proper subset of B.cells, the sentence
\* {B.cells - A.cells, B.count - A.count} has been derived and propagated: it
\* is in the knowledge base, or its cells are all in mines (count = |cells|)
\* or all in safes (count = 0).
C6_SubsetInference ==
    \A A \in Live, B \in Live :
        (A.cells \subseteq B.cells /\ A.cells # B.cells) =>
            LET D == Sentence(B.cells \ A.cells, B.count - A.count)
            IN  \/ D \in Live
                \/ D.count = Cardinality(D.cells) /\ D.cells \subseteq mines
                \/ D.count = 0 /\ D.cells \subseteq safes

\* the instance of C6: A = {c1, c2} count 1, B = {c1, c2, c3} count 2
C6_Instance ==
    \E A \in Live, B \in Live :
        /\ Cardinality(A.cells) = 2 /\ A.count = 1
        /\ Cardinality(B.cells) = 3 /\ B.count = 2
        /\ A.cells \subseteq B.cells
        /\ ~ (B.cells \ A.cells \subseteq mines)

\* C7: after add_knowledge returns, no sentence of the knowledge base has an
\* empty cell set.
C7_NoEmpty == \A s \in Live : s.cells # {}

\* C8: after add_knowledge returns, no two sentences of the knowledge base
\* have identical cell sets.
C8_NoDuplicate ==
    \A p, q \in 1 .. Len(knowledge) :
        p # q => knowledge[p].cells # knowledge[q].cells

\* whether the step is a call add_knowledge(cell, count)
IsCall(cell, count) == calls' = Append(calls, <<cell, count>>)

\* C9: add_knowledge(cell, count) on a cell already in moves_made, with a
\* count it was already called with, leaves knowledge, mines, safes and
\* moves_made as they were.
C9_IdempotentReplay ==
    [][ \A cell \in Cells, count \in Counts :
           ( /\ IsCall(cell, count)
             /\ cell \in moves_made
             /\ \E p \in 1 .. Len(calls) : calls[p] = <<cell, count>> )
           => UNCHANGED kb ]_vars

\* the neighbours of cell that are neither in mines nor in safes
Unresolved(cell) == Neighbors(cell) \ Resolved

\* C10: add_knowledge(cell, count) with count negative or greater than the
\* number of unresolved neighbours of cell leaves knowledge, mines, safes and
\* moves_made as they were.
C10_InvalidRejected ==
    [][ \A cell \in Cells, count \in Counts :
           ( /\ IsCall(cell, count)
             /\ (count < 0 \/ count > Cardinality(Unresolved(cell))) )
           => UNCHANGED kb ]_vars

InRange(s) == 0 <= s.count /\ s.count <= Cardinality(s.cells)

\* C11: after every add_knowledge call that returns, every sentence of the
\* knowledge base has 0 <= count <= |cells|.
C11_CountInRange == \A s \in Live : InRange(s)

\* C12: when an add_knowledge call that finds every sentence in range, and
\* appends a sentence in range, leaves a sentence with a negative count or a
\* count above its number of cells (so that a mark_mine or mark_safe of the
\* call produced it), the call reports an error to its caller.
C12_ViolationSurfaced ==
    [][ ( /\ calls' # calls
          /\ \A s \in Live : InRange(s)
          /\ \A p \in 1 .. Len(appended') : InRange(appended'[p])
          /\ \E p \in 1 .. Len(knowledge') : ~ InRange(knowledge'[p]) )
        => ret'.kind = "error" ]_vars

\* the arguments of the latest add_knowledge call
LastCell == calls[Len(calls)][1]

LastCount == calls[Len(calls)][2]

AfterAddKnowledge == ret.op = "add_knowledge" /\ Len(calls) > 0

\* C13: after add_knowledge(cell, 0) returns, every in-bounds neighbour of
\* cell is in safes.
C13_ZeroNeighboursSafe ==
    (AfterAddKnowledge /\ LastCount = 0) => Neighbors(LastCell) \subseteq safes

StepsAgree ==
    (AfterAddKnowledge /\ pc = "idle") =>
        LET r == add_knowledge_result(pre.knowledge, pre.mines, pre.safes, pre.moves_made,
                                      LastCell, LastCount)
        IN  /\ knowledge = r.kb.knowledge
            /\ mines = r.kb.mines
            /\ safes = r.kb.safes
            /\ moves_made = r.moves_made

\* C15: make_safe_move returns a member of safes - moves_made when that set
\* is not empty, and None exactly when it is empty.
C15_SafeMove ==
    ret.op = "make_safe_move" =>
        IF safes \ moves_made # {}
        THEN ret.kind = "cell" /\ ret.cell \in safes \ moves_made
        ELSE ret.kind = "None"

C15_Witness ==
    /\ ret.op = "make_safe_move"
    /\ ret.kind = "cell"
    /\ moves_made # {}
    /\ Cardinality(safes \ moves_made) >= 2

\* all_cells - probed - known_hazards
Free == Cells \ (moves_made \cup mines)

\* C16: make_random_move returns a cell that is neither in moves_made nor in
\* mines whenever such a cell exists.
C16_RandomMove ==
    (ret.op = "make_random_move" /\ Free # {}) =>
        (ret.kind = "cell" /\ ret.cell \in Free)

\* C17: make_random_move returns None whenever every cell is in moves_made or
\* in mines.
C17_RandomMoveNone ==
    (ret.op = "make_random_move" /\ Free = {}) => ret.kind = "None"

\* the latest add_knowledge(cell, k) found exactly k neighbours of cell in mines
CountExplained ==
    /\ AfterAddKnowledge
    /\ Cardinality(Neighbors(LastCell) \cap pre.mines) = LastCount

C19_QueriesPure ==
    [][ ret'.op \in {"make_safe_move", "make_random_move"} => UNCHANGED kb ]_vars

C19_Witness ==
    /\ ret.op \in {"make_safe_move", "make_random_move"}
    /\ ret.kind = "cell"
    /\ moves_made # {}
    /\ safes \ moves_made # {}

AfterResolve == ret.op \in {"Sentence.mark_mine", "Sentence.mark_safe"}

\* the same method of the sentence, applied to s
Again(s) ==
    IF ret.op = "Sentence.mark_mine"
    THEN Sentence_mark_mine(s, ret.cell)
    ELSE Sentence_mark_safe(s, ret.cell)

\* C21: mark_mine / mark_safe of a sentence with a cell of its cells removes
\* the cell, and takes exactly 1 off count for mark_mine and nothing for
\* mark_safe; with a cell not in its cells it leaves cells and count as they
\* were, so that a second call with the same cell changes nothing.
C21_Resolve ==
    AfterResolve =>
        LET before == pre.knowledge[1]
            after == knowledge[1]
        IN  /\ ret.cell \in before.cells =>
                /\ after.cells = before.cells \ {ret.cell}
                /\ after.count = before.count -
                                  (IF ret.op = "Sentence.mark_mine" THEN 1 ELSE 0)
            /\ ret.cell \notin before.cells => after = before
            /\ Again(after) = after

C21_Witness ==
    /\ ret.op = "Sentence.mark_mine"
    /\ ret.kind = "1"
    /\ knowledge[1].count = pre.knowledge[1].count - 1
    /\ knowledge[1].cells # {}

\* C22: when every call is made on a safe cell of a fixed board with its true
\* nearby_mines count, every sentence of knowledge is true of the board: its
\* count is the number of mines of the board among its cells, also when some
\* of its cells are already in safes or mines.
C22_SentencesTrue ==
    \A s \in Live : s.count = Cardinality(s.cells \cap board)

C22_Witness ==
    \E s \in Live :
        /\ s.count >= 1
        /\ s.cells \cap Resolved # {}
        /\ s.cells \ Resolved # {}

\* no cell is observed twice in seq
Distinct(seq) ==
    \A i, j \in 1 .. Len(seq) : i # j => seq[i][1] # seq[j][1]

\* the sequences that hold the calls of seq in some order
Reorderings(seq) ==
    LET n == Len(seq)
        orders == { f \in [1 .. n -> 1 .. n] : \A a, b \in 1 .. n : a # b => f[a] # f[b] }
    IN  { [i \in 1 .. n |-> seq[f[i]]] : f \in orders }

RECURSIVE Replay(_, _)
\* a new MinesweeperAI after the first n add_knowledge calls of seq
Replay(seq, n) ==
    IF n = 0
    THEN [kb |-> KB(<<>>, {}, {}), moves_made |-> {}]
    ELSE LET st == Replay(seq, n - 1)
             r == add_knowledge_result(st.kb.knowledge, st.kb.mines, st.kb.safes,
                                       st.moves_made, seq[n][1], seq[n][2])
         IN  [kb |-> r.kb, moves_made |-> r.moves_made]

\* C23: for a fixed board and a fixed set of its safe cells, each observed
\* once with its true nearby_mines count, mines and safes at the end are the
\* same in whatever order the cells are observed.
C23_OrderIndependent ==
    Distinct(calls) =>
        \A seq \in Reorderings(calls) :
            LET end == Replay(seq, Len(seq))
            IN  /\ end.kb.mines = mines
                /\ end.kb.safes = safes

====
